---- MODULE Spec2Model ----
(***************************************************************************)
(* Signal-to-execution engine of src/trade/okx.py: one OKB-USDT-SWAP      *)
(* trading cycle (trading_bot) is candle fetch -> analyze_with_deepseek    *)
(* -> execute_trade, run repeatedly against an exchange that holds the     *)
(* long/short positions of the instrument.                                 *)
(*                                                                         *)
(* Specifications:                                                         *)
(*   Spec         the cycles of main, step by step                         *)
(*   SpecHistory  a long run of analyze_with_deepseek calls                *)
(*   SpecCalls    single calls of calculate_position_size,                 *)
(*                wait_for_next_period and get_current_position            *)
(*   SpecStartup  setup_exchange and the first cycle, test_mode set or not *)
(*                                                                         *)
(* Numbers.  The program computes in floating point; the model computes    *)
(* the same expressions exactly, in fixed point:                           *)
(*   sizes     in 1/SzScale contracts  (SzScale = 1/0.0001)                *)
(*   ctVal     in 1/CvScale coins      (CvScale = 1/0.1)                   *)
(*   prices    in whole USDT                                               *)
(*   money     in 1/MoneyScale USDT, MoneyScale = SzScale*CvScale*leverage *)
(*             so that notional and notional/leverage are both integers    *)
(*   stop_loss / take_profit in 1/100 USDT (price * 0.98 = price*98/100)   *)
(***************************************************************************)
EXTENDS Integers, Sequences, FiniteSets, TLC

VARIABLES
    pc,              \* position of the process inside trading_bot / main loop
    cycle,           \* number of the running cycle (also price_data['timestamp'])
    longSz,          \* exchange: size of the instrument's long position
    shortSz,         \* exchange: size of the instrument's short position
    instSpec,        \* exchange: the instrument's minSz / lotSz / ctVal
    price_data,      \* result of get_OKB_ohlcv_enhanced in this cycle
    fetchCalls,      \* get_OKB_ohlcv_enhanced: fetch_ohlcv calls of the fetch just made
    oracleCalled,    \* whether the chat completion was requested in this cycle
    oracleReply,     \* analyze_with_deepseek: what the oracle did in the call just made
    signal_data,     \* result of analyze_with_deepseek in this cycle
    signal_history,  \* global signal_history
    position,        \* global position (refreshed at the end of execute_trade)
    current_position,\* execute_trade: result of its first get_current_position()
    sizing,          \* execute_trade: result of calculate_position_size
    usdt_balance,    \* execute_trade: result of get_usdt_balance()
    exchFund,        \* exchange: USDT in the funding account when it was queried
    exchAvail,       \* exchange: available USDT of the trading account at that time
    startLong,       \* exchange: long size when execute_trade started
    startShort,      \* exchange: short size when execute_trade started
    priceAtExec,     \* execute_trade: current_price
    gate,            \* execute_trade: the risk check that ended it, or "pass"
    orders,          \* orders submitted in this cycle (or by the startup), in order
    arrivals,        \* every signal analyze_with_deepseek parsed so far, in order
    call,            \* a single call of one function: its arguments and result
    test_mode,       \* TRADE_CONFIG['test_mode']
    setupAttempt          \* setup_exchange: setupAttempt of the position-mode loop

vars == <<pc, cycle, longSz, shortSz, instSpec, price_data, fetchCalls, oracleCalled,
          oracleReply,
          signal_data, signal_history, position, current_position, sizing,
          usdt_balance, exchFund, exchAvail, startLong, startShort, priceAtExec,
          gate, orders, arrivals, call, test_mode, setupAttempt>>

(***************************************************************************)
(* Bounds of the model                                                     *)
(***************************************************************************)
MaxCycles == 2
MaxExchContracts == 3
MaxHistoryCalls == 33
MaxRejected == 1

(***************************************************************************)
(* Program constants                                                       *)
(***************************************************************************)
SzScale == 10000
CvScale == 10
Leverage == 10
TargetNotionalUsd == 5
MaxPositionValueUsd == 100
MinTradeValueUsd == 3
DefaultBalanceUsd == 10
HistoryCap == 30
MaxRetries == 3

MoneyScale == SzScale * CvScale * Leverage
Usd(n) == n * MoneyScale

None == [none |-> TRUE]

\* The return statement of get_contract_specs when the fetch fails.
DefaultSpec == [min_size |-> 100, size_increment |-> 1, contract_value |-> 1]

\* Specs the exchange may report for the instrument: the documented one, and
\* one whose minimum order is a whole contract of one coin.
InstSpecs == {DefaultSpec,
              [min_size |-> 10000, size_increment |-> 10000, contract_value |-> 10]}

Prices == {0, 60, 150}

\* get_contract_specs(): the exchange's spec when the fetch answers code '0'
\* with data, the defaults when it raises, answers another code or no data.
SpecOutcomes == {"ok", "fail"}

get_contract_specs(outcome) == IF outcome = "ok" THEN instSpec ELSE DefaultSpec

\* size * contract_value * price, in money units
Notional(sz, cv, price) == sz * cv * price * Leverage

(***************************************************************************)
(* calculate_position_size                                                 *)
(***************************************************************************)
\* Python's round(n/d) for n >= 0, d > 0: nearest integer, ties to even.
RoundHalfEven(n, d) ==
    LET q == n \div d
        r == n % d
    IN  IF 2 * r < d THEN q
        ELSE IF 2 * r > d THEN q + 1
        ELSE IF q % 2 = 0 THEN q ELSE q + 1

\* The except branch: 0.01 contracts of face value 0.1.
DefaultSizing(price) ==
    [contracts |-> 100,
     notional  |-> Notional(100, 1, price),
     margin    |-> Notional(100, 1, price) \div Leverage,
     failed    |-> TRUE]

\* calculate_position_size computing the notional from the raw target
calculate_position_sizeFromTarget(price, target_notional, specOutcome) ==
    LET contract_spec == get_contract_specs(specOutcome)
        contract_value == contract_spec.contract_value
        num == target_notional * SzScale * CvScale
        den == contract_value * price
        min_size == contract_spec.min_size
        size_increment == contract_spec.size_increment
        useNeeded == num > min_size * den
        aNum == IF useNeeded THEN num ELSE min_size
        aDen == IF useNeeded THEN den ELSE 1
        adjusted_contracts == IF size_increment > 0
                              THEN RoundHalfEven(aNum, aDen * size_increment) * size_increment
                              ELSE aNum \div aDen
    IN  IF den = 0
        THEN DefaultSizing(price)
        ELSE [contracts |-> adjusted_contracts,
              notional  |-> Usd(target_notional),
              margin    |-> Usd(target_notional) \div Leverage,
              failed    |-> FALSE]

\* target_notional is in whole USDT; execute_trade passes the default 5.0.
calculate_position_size(price, target_notional, specOutcome) ==
    LET contract_spec == get_contract_specs(specOutcome)
        contract_value == contract_spec.contract_value
        \* contracts_needed = target / (contract_value * price), as num / den
        num == target_notional * SzScale * CvScale
        den == contract_value * price
        min_size == contract_spec.min_size
        size_increment == contract_spec.size_increment
        \* adjusted = max(contracts_needed, min_size), as aNum / aDen
        useNeeded == num > min_size * den
        aNum == IF useNeeded THEN num ELSE min_size
        aDen == IF useNeeded THEN den ELSE 1
        adjusted_contracts == IF size_increment > 0
                              THEN RoundHalfEven(aNum, aDen * size_increment) * size_increment
                              ELSE aNum \div aDen
        actual_notional == Notional(adjusted_contracts, contract_value, price)
    IN  IF den = 0
        THEN DefaultSizing(price)     \* ZeroDivisionError
        ELSE [contracts |-> adjusted_contracts,
              notional  |-> actual_notional,
              margin    |-> actual_notional \div Leverage,
              failed    |-> FALSE]

(***************************************************************************)
(* get_usdt_balance                                                        *)
(***************************************************************************)
QueryOutcomes == {"ok", "fail"}

\* What the account may hold: <<funding balance, available trading balance>>
AccountBalances == {<<0, 0>>, <<Usd(5), 0>>, <<0, Usd(50)>>}

\* Method 1 (funding account), then method 2 (trading account), then 10.0.
\* A query that raises or answers a code other than '0' is skipped.
get_usdt_balance(fundOutcome, fund, availOutcome, avail) ==
    IF fundOutcome = "ok" /\ fund > 0 THEN fund
    ELSE IF availOutcome = "ok" /\ avail > 0 THEN avail
    ELSE Usd(DefaultBalanceUsd)

(***************************************************************************)
(* get_current_position                                                    *)
(***************************************************************************)
\* the state tags an entry of the exchange's answer may carry
PosStates == {"live", "closing"}

Instrument == "OKB-USDT-SWAP"

Abs(x) == IF x < 0 THEN 0 - x ELSE x

\* The entries the exchange reports for the instrument: one per open side,
\* the size signed by the side, in either order, each with a state tag.
PositionEntries(long, short) ==
    LET L == {<<[instId |-> Instrument, pos |-> long, state |-> st]>> :
                 st \in PosStates}
        S == {<<[instId |-> Instrument, pos |-> 0 - short, state |-> st]>> :
                 st \in PosStates}
    IN  IF long = 0 /\ short = 0 THEN {<<>>}
        ELSE IF short = 0 THEN L
        ELSE IF long = 0 THEN S
        ELSE {l \o s : l \in L, s \in S} \cup {s \o l : l \in L, s \in S}

\* What privateGetAccountPositions can do: raise, answer an error code, or
\* answer code '0' with the entries.
PositionsResponses(long, short) ==
    {[kind |-> "raise", code |-> "", data |-> <<>>],
     [kind |-> "resp", code |-> "50001", data |-> <<>>]}
    \cup {[kind |-> "resp", code |-> "0", data |-> d] : d \in PositionEntries(long, short)}

\* ScanPositions without the test of the entry's state
RECURSIVE ScanPositionsAnyState(_, _, _)
ScanPositionsAnyState(data, specs, i) ==
    IF i > Len(data) THEN None
    ELSE LET contracts == data[i].pos
             min_size == get_contract_specs(specs[i]).min_size
         IN  IF data[i].instId = Instrument /\ Abs(contracts) > min_size
             THEN [side  |-> IF contracts > 0 THEN "long" ELSE "short",
                   size  |-> Abs(contracts),
                   state |-> data[i].state]
             ELSE ScanPositionsAnyState(data, specs, i + 1)

RECURSIVE ScanPositions(_, _, _)
ScanPositions(data, specs, i) ==
    IF i > Len(data) THEN None
    ELSE LET contracts == data[i].pos
             min_size == get_contract_specs(specs[i]).min_size
         IN  IF data[i].instId = Instrument /\ Abs(contracts) > min_size
             THEN IF data[i].state \in {"live", "normal"}
                  THEN [side  |-> IF contracts > 0 THEN "long" ELSE "short",
                        size  |-> Abs(contracts),
                        state |-> data[i].state]
                  ELSE None
             ELSE ScanPositions(data, specs, i + 1)

\* specs[i] is the outcome of the get_contract_specs call made for entry i.
get_current_position(resp, specs) ==
    IF resp.kind = "raise" \/ resp.code # "0" THEN None
    ELSE ScanPositions(resp.data, specs, 1)

(***************************************************************************)
(* get_OKB_ohlcv_enhanced                                                  *)
(***************************************************************************)
\* One setupAttempt: fetch_ohlcv (or the processing of its candles) raises,
\* answers no candles, or answers candles whose last close is the price.
FetchOutcomes == {"raise", "empty", "ok"}

RECURSIVE FetchLoop(_, _, _)
FetchLoop(outs, price, attempt) ==
    IF attempt >= MaxRetries THEN [data |-> None, calls |-> attempt]
    ELSE IF outs[attempt + 1] = "ok"
         THEN [data |-> [price |-> price, timestamp |-> cycle], calls |-> attempt + 1]
         ELSE IF attempt < MaxRetries - 1
              THEN FetchLoop(outs, price, attempt + 1)
              ELSE [data |-> None, calls |-> attempt + 1]

\* get_OKB_ohlcv_enhanced answering a candle of its own when every
\* attempt failed
get_OKB_ohlcv_enhancedNeverAbsent(outs, price) ==
    LET r == FetchLoop(outs, price, 0)
    IN  IF r.data = None
        THEN [data |-> [price |-> price, timestamp |-> cycle], calls |-> r.calls]
        ELSE r

get_OKB_ohlcv_enhanced(outs, price) == FetchLoop(outs, price, 0)

(***************************************************************************)
(* analyze_with_deepseek                                                   *)
(***************************************************************************)
\* The reply is a sequence of tokens: "{", "}", "txt" (any other text) and
\* "key:value" members of a JSON object.
TokKey(t) ==
    CASE t \in {"signal:BUY", "signal:SELL", "signal:HOLD", "signal:WAIT"} -> "signal"
      [] t = "reason:up" -> "reason"
      [] t = "stop_loss:95" -> "stop_loss"
      [] t = "take_profit:105" -> "take_profit"
      [] t \in {"confidence:HIGH", "confidence:MEDIUM", "confidence:LOW"} -> "confidence"
      [] OTHER -> ""

TokVal(t) ==
    CASE t = "signal:BUY" -> "BUY"
      [] t = "signal:SELL" -> "SELL"
      [] t = "signal:HOLD" -> "HOLD"
      [] t = "signal:WAIT" -> "WAIT"
      [] t = "reason:up" -> "up"
      [] t = "stop_loss:95" -> 9500
      [] t = "take_profit:105" -> 10500
      [] t = "confidence:HIGH" -> "HIGH"
      [] t = "confidence:MEDIUM" -> "MEDIUM"
      [] t = "confidence:LOW" -> "LOW"
      [] OTHER -> ""

\* str.find / str.rfind: 0-based index of the first / last occurrence, or -1
Find(s, ch) ==
    IF \E i \in 1..Len(s) : s[i] = ch
    THEN (CHOOSE i \in 1..Len(s) : s[i] = ch /\ \A j \in 1..(i - 1) : s[j] # ch) - 1
    ELSE -1

RFind(s, ch) ==
    IF \E i \in 1..Len(s) : s[i] = ch
    THEN (CHOOSE i \in 1..Len(s) : s[i] = ch /\ \A j \in (i + 1)..Len(s) : s[j] # ch) - 1
    ELSE -1

\* s[a:b] of Python, for 0 <= a and 0 <= b <= len(s)
Slice(s, a, b) == IF b <= a THEN <<>> ELSE SubSeq(s, a + 1, b)

\* json.loads accepts the text when it is one object: "{", members, "}"
JsonValid(s) ==
    /\ Len(s) >= 2
    /\ s[1] = "{"
    /\ s[Len(s)] = "}"
    /\ \A i \in 2..(Len(s) - 1) : TokKey(s[i]) # ""

\* the dict json.loads returns: the last member of each key wins
JsonLoads(s) ==
    LET keys == {TokKey(s[i]) : i \in 2..(Len(s) - 1)}
        last(k) == CHOOSE i \in 2..(Len(s) - 1) :
                       /\ TokKey(s[i]) = k
                       /\ \A j \in (i + 1)..(Len(s) - 1) : TokKey(s[j]) # k
    IN  [k \in keys |-> TokVal(s[last(k)])]

required_fields == {"signal", "reason", "stop_loss", "take_profit", "confidence"}

\* create_fallback_signal answering a tradeable signal instead of HOLD / LOW
create_fallback_signalTrades(pd) ==
    [signal      |-> "BUY",
     reason      |-> "fallback",
     stop_loss   |-> pd.price * 98,
     take_profit |-> pd.price * 102,
     confidence  |-> "HIGH",
     is_fallback |-> TRUE]

create_fallback_signal(pd) ==
    [signal      |-> "HOLD",
     reason      |-> "fallback",
     stop_loss   |-> pd.price * 98,
     take_profit |-> pd.price * 102,
     confidence  |-> "LOW",
     is_fallback |-> TRUE]

\* ParseSignal with any(...) in place of all(...) in the required-field test
ParseSignalAnyField(result, pd) ==
    LET start_idx == Find(result, "{")
        end_idx == RFind(result, "}") + 1
        json_str == Slice(result, start_idx, end_idx)
        signal_data_ == JsonLoads(json_str)
    IN  IF start_idx # -1 /\ end_idx # 0 /\ JsonValid(json_str)
           /\ required_fields \cap DOMAIN signal_data_ # {}
        THEN [k \in (DOMAIN signal_data_) \cup {"timestamp"} |->
                 IF k = "timestamp" THEN pd.timestamp ELSE signal_data_[k]]
        ELSE None

\* Lines 633-651: the parsed signal, or None when the reply is rejected.
ParseSignal(result, pd) ==
    LET start_idx == Find(result, "{")
        end_idx == RFind(result, "}") + 1
        json_str == Slice(result, start_idx, end_idx)
        signal_data_ == JsonLoads(json_str)
    IN  IF start_idx # -1 /\ end_idx # 0 /\ JsonValid(json_str)
           /\ required_fields \subseteq DOMAIN signal_data_
        THEN [k \in (DOMAIN signal_data_) \cup {"timestamp"} |->
                 IF k = "timestamp" THEN pd.timestamp ELSE signal_data_[k]]
        ELSE None

\* What the oracle can do: no client, the call raises, the reply has no
\* content (None), or the reply is a text.
OracleKinds == {"no_client", "raise", "none", "text"}

Member(k, sv, cv) ==
    CASE k = "signal" -> "signal:" \o sv
      [] k = "reason" -> "reason:up"
      [] k = "stop_loss" -> "stop_loss:95"
      [] k = "take_profit" -> "take_profit:105"
      [] k = "confidence" -> "confidence:" \o cv

\* the members of an object holding the keys F, in the order of the prompt
Members(F, sv, cv) ==
    LET pick(k) == IF k \in F THEN <<Member(k, sv, cv)>> ELSE <<>>
    IN  pick("signal") \o pick("reason") \o pick("stop_loss")
          \o pick("take_profit") \o pick("confidence")

SignalValues == {"BUY", "SELL", "HOLD", "WAIT"}

\* the <<signal, confidence>> pairs of the complete objects the oracle sends
OracleAnswers ==
    {<<sv, "HIGH">> : sv \in SignalValues}
    \cup {<<"BUY", "LOW">>}
    \cup {<<"SELL", "MEDIUM">>}

OracleObjects ==
    {<<"{">> \o Members(required_fields, a[1], a[2]) \o <<"}">> : a \in OracleAnswers}
    \cup {<<"{">> \o Members(required_fields \ {k}, "BUY", "HIGH") \o <<"}">> :
        k \in required_fields}
    \cup {<<"{", "}">>, <<"{", "txt", "}">>,
          <<"{", "signal:BUY", "signal:SELL", "reason:up", "stop_loss:95",
            "take_profit:105", "confidence:HIGH", "}">>}

OracleTexts ==
    {<<>>, <<"txt">>, <<"{">>, <<"}">>, <<"}", "{">>, <<"{", "txt">>}
    \cup {pre \o obj \o post :
            pre \in {<<>>, <<"txt">>}, obj \in OracleObjects, post \in {<<>>, <<"txt">>}}
    \cup {o1 \o o2 : o1 \in {<<"{", "}">>}, o2 \in OracleObjects}

\* analyze_with_deepseek without the pop(0) of line 646
analyze_with_deepseekNoEvict(kind, text, pd, history) ==
    LET parsed == IF kind = "text" THEN ParseSignal(text, pd) ELSE None
    IN  IF parsed # None
        THEN [signal |-> parsed, history |-> Append(history, parsed)]
        ELSE [signal |-> create_fallback_signal(pd), history |-> history]

\* Lines 600-655.  history is signal_history before the call; the result is
\* the returned signal and signal_history after the call.
analyze_with_deepseek(kind, text, pd, history) ==
    LET parsed == IF kind = "text" THEN ParseSignal(text, pd) ELSE None
        appended == Append(history, parsed)
    IN  IF parsed # None
        THEN [signal  |-> parsed,
              history |-> IF Len(appended) > HistoryCap THEN Tail(appended) ELSE appended]
        ELSE [signal |-> create_fallback_signal(pd), history |-> history]

(***************************************************************************)
(* execute_trade                                                           *)
(***************************************************************************)
\* RiskGate without the confidence check
RiskGateNoConfidence(confidence, sz, bal, cur, cvOutcome, current_price) ==
    IF sz.margin * 10 > bal * 6 THEN "margin"
    ELSE IF sz.notional > Usd(MaxPositionValueUsd) THEN "max"
    ELSE IF sz.notional < Usd(MinTradeValueUsd) THEN "min"
    ELSE IF cur # None
            /\ Notional(cur.size, get_contract_specs(cvOutcome).contract_value, current_price)
                  + sz.notional > Usd(MaxPositionValueUsd)
         THEN "combined"
    ELSE "pass"

\* RiskGate without the margin check
RiskGateNoMargin(confidence, sz, bal, cur, cvOutcome, current_price) ==
    IF confidence = "LOW" THEN "low"
    ELSE IF sz.notional > Usd(MaxPositionValueUsd) THEN "max"
    ELSE IF sz.notional < Usd(MinTradeValueUsd) THEN "min"
    ELSE IF cur # None
            /\ Notional(cur.size, get_contract_specs(cvOutcome).contract_value, current_price)
                  + sz.notional > Usd(MaxPositionValueUsd)
         THEN "combined"
    ELSE "pass"

\* RiskGate without the maximum position value check
RiskGateNoMax(confidence, sz, bal, cur, cvOutcome, current_price) ==
    IF confidence = "LOW" THEN "low"
    ELSE IF sz.margin * 10 > bal * 6 THEN "margin"
    ELSE IF sz.notional < Usd(MinTradeValueUsd) THEN "min"
    ELSE IF cur # None
            /\ Notional(cur.size, get_contract_specs(cvOutcome).contract_value, current_price)
                  + sz.notional > Usd(MaxPositionValueUsd)
         THEN "combined"
    ELSE "pass"

\* Lines 668-701: where execute_trade returns before trading, or "pass".
\* cvOutcome is the outcome of the get_contract_specs call of line 698.
RiskGate(confidence, sz, bal, cur, cvOutcome, current_price) ==
    IF confidence = "LOW" THEN "low"
    ELSE IF sz.margin * 10 > bal * 6 THEN "margin"
    ELSE IF sz.notional > Usd(MaxPositionValueUsd) THEN "max"
    ELSE IF sz.notional < Usd(MinTradeValueUsd) THEN "min"
    ELSE IF cur # None
            /\ Notional(cur.size, get_contract_specs(cvOutcome).contract_value, current_price)
                  + sz.notional > Usd(MaxPositionValueUsd)
         THEN "combined"
    ELSE "pass"

\* TradeStep closing whatever position exists, without looking at its side
TradeStepCloseAnySide(signal, cur) ==
    IF signal \in {"BUY", "SELL"}
    THEN IF cur # None THEN "close" ELSE "open"
    ELSE IF signal = "HOLD" THEN "done"
    ELSE "refresh"

\* TradeStep whose last branch is an else that sells, with no HOLD branch
TradeStepNoHold(signal, cur) ==
    IF signal = "BUY"
    THEN IF cur # None /\ cur.side = "short" THEN "close" ELSE "open"
    ELSE IF cur # None /\ cur.side = "long" THEN "close" ELSE "open"

\* Lines 704-772: the first thing execute_trade does once the gates passed.
TradeStep(signal, cur) ==
    IF signal = "BUY"
    THEN IF cur # None /\ cur.side = "short" THEN "close" ELSE "open"
    ELSE IF signal = "SELL"
    THEN IF cur # None /\ cur.side = "long" THEN "close" ELSE "open"
    ELSE IF signal = "HOLD" THEN "done"
    ELSE "refresh"

\* CloseParams without the reduce-only flag
CloseParamsNoReduceOnly(signal, cur) ==
    [side       |-> IF signal = "BUY" THEN "buy" ELSE "sell",
     posSide    |-> IF signal = "BUY" THEN "short" ELSE "long",
     sz         |-> cur.size,
     reduceOnly |-> FALSE]

\* Lines 708-716 and 741-749
CloseParams(signal, cur) ==
    [side       |-> IF signal = "BUY" THEN "buy" ELSE "sell",
     posSide    |-> IF signal = "BUY" THEN "short" ELSE "long",
     sz         |-> cur.size,
     reduceOnly |-> TRUE]

\* OpenParams with the BUY branch's posSide in both branches
OpenParamsAlwaysLong(signal, position_size) ==
    [side       |-> IF signal = "BUY" THEN "buy" ELSE "sell",
     posSide    |-> "long",
     sz         |-> position_size,
     reduceOnly |-> FALSE]

\* Lines 726-733 and 759-766
OpenParams(signal, position_size) ==
    [side       |-> IF signal = "BUY" THEN "buy" ELSE "sell",
     posSide    |-> IF signal = "BUY" THEN "long" ELSE "short",
     sz         |-> position_size,
     reduceOnly |-> FALSE]

\* AfterClose without the test of the acknowledgment's code
AfterCloseUnchecked(code) == IF code = "raise" THEN "done" ELSE "open"

\* Lines 717-722 and 750-755: what follows the close order's outcome.
AfterClose(code) == IF code = "0" THEN "open" ELSE "done"

\* AfterOpen submitting the open order again when it was not acknowledged
AfterOpenRetry(code) ==
    IF code = "raise" THEN "done" ELSE IF code = "0" THEN "refresh" ELSE "open"

\* Lines 734-735, 767-768, 774-779: what follows the open order's outcome.
AfterOpen(code) == IF code = "raise" THEN "done" ELSE "refresh"

(***************************************************************************)
(* wait_for_next_period                                                    *)
(***************************************************************************)
\* datetime.now().minute and .second
Minutes == 0..59
Seconds == 0..59

\* wait_for_next_period without the "+ 1" of line 788
wait_for_next_periodSameMark(current_minute, current_second) ==
    LET raw == (current_minute \div 5) * 5
        next_period_minute == IF raw = 60 THEN 0 ELSE raw
        minutes_to_wait == IF next_period_minute > current_minute
                           THEN next_period_minute - current_minute
                           ELSE 60 - current_minute + next_period_minute
    IN  minutes_to_wait * 60 - current_second

\* Lines 782-804: the seconds to sleep.
wait_for_next_period(current_minute, current_second) ==
    LET raw == ((current_minute \div 5) + 1) * 5
        next_period_minute == IF raw = 60 THEN 0 ELSE raw
        minutes_to_wait == IF next_period_minute > current_minute
                           THEN next_period_minute - current_minute
                           ELSE 60 - current_minute + next_period_minute
    IN  minutes_to_wait * 60 - current_second

(***************************************************************************)
(* The exchange                                                            *)
(***************************************************************************)
\* privatePostTradeOrder answers code '0' (filled), an error code, or raises.
OrderCodes == {"0", "51000", "raise"}

Min(a, b) == IF a < b THEN a ELSE b

\* The side's size after a market order of the long/short position mode.
Filled(size, params, posSide, code) ==
    IF code # "0" \/ params.posSide # posSide THEN size
    ELSE IF params.reduceOnly THEN size - Min(size, params.sz)
    ELSE size + params.sz

\* The exchange fills an order only within its position limit.
Fillable(params) ==
    \/ params.reduceOnly
    \/ Filled(IF params.posSide = "long" THEN longSz ELSE shortSz,
              params, params.posSide, "0") <= MaxExchContracts * SzScale

(***************************************************************************)
(* The process                                                             *)
(***************************************************************************)
Init ==
    /\ pc = "start"
    /\ cycle = 1
    /\ longSz = 0
    /\ shortSz = 0
    /\ instSpec \in InstSpecs
    /\ price_data = None
    /\ fetchCalls = 0
    /\ oracleCalled = FALSE
    /\ oracleReply = None
    /\ signal_data = None
    /\ signal_history = <<>>
    /\ position = None
    /\ current_position = None
    /\ sizing = None
    /\ usdt_balance = 0
    /\ exchFund = 0
    /\ exchAvail = 0
    /\ startLong = 0
    /\ startShort = 0
    /\ priceAtExec = 0
    /\ gate = ""
    /\ orders = <<>>
    /\ arrivals = <<>>
    /\ call = None
    /\ test_mode = FALSE
    /\ setupAttempt = 0

exchangeVars == <<longSz, shortSz, instSpec>>
tradeVars == <<current_position, sizing, usdt_balance, exchFund, exchAvail,
               startLong, startShort, priceAtExec, gate, orders>>

\* trading_bot, lines 817-821
GetOhlcv ==
    /\ pc = "start"
    /\ \E outs \in [1..MaxRetries -> FetchOutcomes], price \in Prices :
         LET r == get_OKB_ohlcv_enhanced(outs, price)
         IN  /\ price_data' = r.data
             /\ fetchCalls' = r.calls
             /\ pc' = IF r.data = None THEN "done" ELSE "fetched"
    /\ UNCHANGED <<cycle, exchangeVars, oracleCalled, oracleReply, signal_data,
                   signal_history, position, tradeVars, arrivals, call, test_mode, setupAttempt>>

\* trading_bot, lines 826-829
AnalyzeWithDeepseek ==
    /\ pc = "fetched"
    /\ \E kind \in OracleKinds :
         \E text \in (IF kind = "text" THEN OracleTexts ELSE {<<>>}) :
            LET r == analyze_with_deepseek(kind, text, price_data, signal_history)
            IN  /\ signal_data' = r.signal
                /\ signal_history' = r.history
                /\ oracleCalled' = (kind # "no_client")
                /\ oracleReply' = [kind |-> kind, text |-> text]
                /\ arrivals' = IF "is_fallback" \in DOMAIN r.signal
                               THEN arrivals
                               ELSE Append(arrivals, r.signal)
    /\ fetchCalls' = 0
    /\ pc' = "analyzed"
    /\ UNCHANGED <<cycle, exchangeVars, price_data, position, tradeVars, call, test_mode, setupAttempt>>

\* execute_trade, lines 662-663
QueryPosition ==
    /\ pc = "analyzed"
    /\ \E resp \in PositionsResponses(longSz, shortSz) :
         \E specs \in [1..Len(resp.data) -> SpecOutcomes] :
            current_position' = get_current_position(resp, specs)
    /\ startLong' = longSz
    /\ startShort' = shortSz
    /\ priceAtExec' = price_data.price
    /\ oracleReply' = None
    /\ pc' = "risk"
    /\ UNCHANGED <<cycle, exchangeVars, price_data, fetchCalls, oracleCalled,
                   signal_data, signal_history, position, sizing, usdt_balance,
                   exchFund, exchAvail, gate, orders, arrivals, call, test_mode, setupAttempt>>

\* execute_trade, lines 668-703
CheckRisk ==
    /\ pc = "risk"
    /\ \E so \in SpecOutcomes, acct \in AccountBalances, fo \in QueryOutcomes,
          ao \in QueryOutcomes, co \in SpecOutcomes :
         LET sz == calculate_position_size(priceAtExec, TargetNotionalUsd, so)
             fund == acct[1]
             avail == acct[2]
             bal == get_usdt_balance(fo, fund, ao, avail)
             g == IF signal_data.confidence # "LOW" /\ test_mode THEN "test"
                  ELSE RiskGate(signal_data.confidence, sz, bal, current_position,
                                co, priceAtExec)
         IN  /\ gate' = g
             /\ IF g \in {"low", "test"}
                THEN UNCHANGED <<sizing, usdt_balance, exchFund, exchAvail>>
                ELSE /\ sizing' = sz
                     /\ usdt_balance' = bal
                     /\ exchFund' = fund
                     /\ exchAvail' = avail
             /\ pc' = IF g = "pass"
                      THEN TradeStep(signal_data.signal, current_position)
                      ELSE "done"
    /\ UNCHANGED <<cycle, exchangeVars, price_data, fetchCalls, oracleCalled,
                   oracleReply, signal_data, signal_history, position, current_position,
                   startLong, startShort, priceAtExec, orders, arrivals, call, test_mode, setupAttempt>>

\* an order reaches the exchange: its outcome and its fill
Submit(params, code) ==
    /\ code = "0" => Fillable(params)
    /\ orders' = Append(orders, [params |-> params, code |-> code])
    /\ longSz' = Filled(longSz, params, "long", code)
    /\ shortSz' = Filled(shortSz, params, "short", code)

\* execute_trade, lines 705-722 and 738-755
SubmitClose ==
    /\ pc = "close"
    /\ \E code \in OrderCodes :
         /\ Submit(CloseParams(signal_data.signal, current_position), code)
         /\ pc' = AfterClose(code)
    /\ UNCHANGED <<cycle, instSpec, price_data, fetchCalls, oracleCalled, oracleReply, signal_data,
                   signal_history, position, current_position, sizing, usdt_balance,
                   exchFund, exchAvail, startLong, startShort, priceAtExec, gate,
                   arrivals, call, test_mode, setupAttempt>>

\* execute_trade, lines 724-735 and 757-768
SubmitOpen ==
    /\ pc = "open"
    /\ \E code \in OrderCodes :
         /\ Submit(OpenParams(signal_data.signal, sizing.contracts), code)
         /\ pc' = AfterOpen(code)
    /\ UNCHANGED <<cycle, instSpec, price_data, fetchCalls, oracleCalled, oracleReply, signal_data,
                   signal_history, position, current_position, sizing, usdt_balance,
                   exchFund, exchAvail, startLong, startShort, priceAtExec, gate,
                   arrivals, call, test_mode, setupAttempt>>

\* execute_trade, lines 774-776
RefreshPosition ==
    /\ pc = "refresh"
    /\ \E resp \in PositionsResponses(longSz, shortSz) :
         \E specs \in [1..Len(resp.data) -> SpecOutcomes] :
            position' = get_current_position(resp, specs)
    /\ pc' = "done"
    /\ UNCHANGED <<cycle, exchangeVars, price_data, fetchCalls, oracleCalled,
                   oracleReply, signal_data, signal_history, tradeVars, arrivals,
                   call, test_mode, setupAttempt>>

\* A statement of trading_bot or execute_trade that stands outside every
\* try block (the prints and sleeps of lines 809-815, 820-829, 665-675)
\* raises: the exception leaves trading_bot.  The first run is called at
\* line 871, outside the try of line 877, so the exception leaves main;
\* a scheduled run is called inside it and lands in the except of line 880.
CycleRaises ==
    /\ pc \in {"start", "fetched", "analyzed"}
    /\ pc' = IF cycle = 1 THEN "crashed" ELSE "cooldown"
    /\ price_data' = None
    /\ fetchCalls' = 0
    /\ oracleCalled' = FALSE
    /\ oracleReply' = None
    /\ signal_data' = None
    /\ UNCHANGED <<cycle, exchangeVars, signal_history, position, tradeVars,
                   arrivals, call, test_mode, setupAttempt>>

\* A NextCycle that does not wait for the running cycle to return
NextCycleAnyTime ==
    /\ pc \in {"done", "cooldown", "close", "open"}
    /\ cycle < MaxCycles
    /\ cycle' = cycle + 1
    /\ pc' = "start"
    /\ price_data' = None
    /\ fetchCalls' = 0
    /\ oracleCalled' = FALSE
    /\ oracleReply' = None
    /\ signal_data' = None
    /\ current_position' = None
    /\ sizing' = None
    /\ usdt_balance' = 0
    /\ exchFund' = 0
    /\ exchAvail' = 0
    /\ startLong' = longSz
    /\ startShort' = shortSz
    /\ priceAtExec' = 0
    /\ gate' = ""
    /\ orders' = <<>>
    /\ UNCHANGED <<exchangeVars, signal_history, position, arrivals, call, test_mode, setupAttempt>>

\* main, lines 874-882: trading_bot has returned, or the cooldown after its
\* exception is over, and the schedule runs trading_bot again
NextCycle ==
    /\ pc \in {"done", "cooldown"}
    /\ cycle < MaxCycles
    /\ cycle' = cycle + 1
    /\ pc' = "start"
    /\ price_data' = None
    /\ fetchCalls' = 0
    /\ oracleCalled' = FALSE
    /\ oracleReply' = None
    /\ signal_data' = None
    /\ current_position' = None
    /\ sizing' = None
    /\ usdt_balance' = 0
    /\ exchFund' = 0
    /\ exchAvail' = 0
    /\ startLong' = longSz
    /\ startShort' = shortSz
    /\ priceAtExec' = 0
    /\ gate' = ""
    /\ orders' = <<>>
    /\ UNCHANGED <<exchangeVars, signal_history, position, arrivals, call, test_mode, setupAttempt>>

Next ==
    \/ GetOhlcv
    \/ AnalyzeWithDeepseek
    \/ QueryPosition
    \/ CheckRisk
    \/ SubmitClose
    \/ SubmitOpen
    \/ RefreshPosition
    \/ CycleRaises
    \/ NextCycle

Spec == Init /\ [][Next]_vars

(***************************************************************************)
(* Successive calls of analyze_with_deepseek                               *)
(*                                                                         *)
(* signal_history is written by analyze_with_deepseek only (lines 644-646),*)
(* so its content over a long run is that of the successive calls, one per *)
(* cycle, each stamped with its cycle's timestamp.                         *)
(***************************************************************************)
HistoryPrice == 60

\* The replies of the run: scenario B of the specification (an object after
\* some commentary), commentary alone, or a raising call.
HistoryReplies ==
    {[kind |-> "text",
      text |-> <<"txt", "{", "signal:HOLD", "reason:up", "stop_loss:95",
                 "take_profit:105", "confidence:HIGH", "}">>],
     [kind |-> "text", text |-> <<"txt">>],
     [kind |-> "raise", text |-> <<>>]}

\* replies of the run so far that were not appended
Rejected == (cycle - 1) - Len(arrivals)

InitHistory ==
    /\ pc = "fetched"
    /\ cycle = 1
    /\ longSz = 0
    /\ shortSz = 0
    /\ instSpec = DefaultSpec
    /\ price_data = [price |-> HistoryPrice, timestamp |-> 1]
    /\ fetchCalls = 0
    /\ oracleCalled = FALSE
    /\ oracleReply = None
    /\ signal_data = None
    /\ signal_history = <<>>
    /\ position = None
    /\ current_position = None
    /\ sizing = None
    /\ usdt_balance = 0
    /\ exchFund = 0
    /\ exchAvail = 0
    /\ startLong = 0
    /\ startShort = 0
    /\ priceAtExec = 0
    /\ gate = ""
    /\ orders = <<>>
    /\ arrivals = <<>>
    /\ call = None
    /\ test_mode = FALSE
    /\ setupAttempt = 0

\* trading_bot, line 827, of the cycle; the next cycle's candles follow
AnalyzeCall ==
    /\ pc = "fetched"
    /\ cycle <= MaxHistoryCalls
    /\ \E reply \in HistoryReplies :
         LET r == analyze_with_deepseek(reply.kind, reply.text, price_data,
                                        signal_history)
             parsed == ~("is_fallback" \in DOMAIN r.signal)
         IN  /\ parsed \/ Rejected < MaxRejected
             /\ signal_data' = r.signal
             /\ signal_history' = r.history
             /\ oracleCalled' = TRUE
             /\ oracleReply' = reply
             /\ arrivals' = IF parsed THEN Append(arrivals, r.signal) ELSE arrivals
    /\ cycle' = cycle + 1
    /\ price_data' = [price |-> HistoryPrice, timestamp |-> cycle + 1]
    /\ UNCHANGED <<pc, exchangeVars, fetchCalls, position, tradeVars, call, test_mode, setupAttempt>>

NextHistory == AnalyzeCall

SpecHistory == InitHistory /\ [][NextHistory]_vars

(***************************************************************************)
(* Single calls of calculate_position_size, wait_for_next_period and       *)
(* get_current_position, on arguments and exchange answers drawn from the  *)
(* sets below.                                                             *)
(***************************************************************************)
\* the specs of InstSpecs, one whose minSz is no multiple of its lotSz, and
\* one whose ctVal is 0
SizerSpecs ==
    InstSpecs \cup {[min_size |-> 140, size_increment |-> 100, contract_value |-> 10],
                    [min_size |-> 100, size_increment |-> 1, contract_value |-> 0]}

SizerPrices == {0, 60, 100, 150, 500}
SizerTargets == {1, 5, 20}

SizerCalls ==
    {[fn |-> "calculate_position_size", price |-> p, target_notional |-> t,
      specOutcome |-> o, done |-> FALSE, result |-> None] :
        p \in SizerPrices, t \in SizerTargets, o \in SpecOutcomes}

WaitCalls ==
    {[fn |-> "wait_for_next_period", minute |-> m, second |-> sec,
      done |-> FALSE, result |-> None] : m \in Minutes, sec \in Seconds}

\* Entries of privateGetAccountPositions: of the instrument, with sizes
\* at and above the default minimum size (and below the minimum of the
\* other spec of InstSpecs) and any state tag, or of another instrument.
CallEntries ==
    {[instId |-> Instrument, pos |-> q, state |-> st] :
        q \in {100, 150, -150}, st \in {"live", "normal", "closing"}}
    \cup {[instId |-> "BTC-USDT-SWAP", pos |-> 150, state |-> "live"]}

MaxEntries == 2

CallResponses ==
    {[kind |-> "raise", code |-> "", data |-> <<>>],
     [kind |-> "resp", code |-> "50001", data |-> <<>>]}
    \cup {[kind |-> "resp", code |-> "0", data |-> d] :
            d \in UNION {[1..n -> CallEntries] : n \in 0..MaxEntries}}

PositionCalls ==
    UNION {{[fn |-> "get_current_position", resp |-> r, specs |-> sp,
             done |-> FALSE, result |-> None] :
               sp \in [1..Len(r.data) -> SpecOutcomes]} : r \in CallResponses}

InitCalls ==
    /\ pc = "call"
    /\ cycle = 1
    /\ longSz = 0
    /\ shortSz = 0
    /\ \/ call \in SizerCalls /\ instSpec \in SizerSpecs
       \/ call \in WaitCalls /\ instSpec = DefaultSpec
       \/ call \in PositionCalls /\ instSpec \in InstSpecs
    /\ price_data = None
    /\ fetchCalls = 0
    /\ oracleCalled = FALSE
    /\ oracleReply = None
    /\ signal_data = None
    /\ signal_history = <<>>
    /\ position = None
    /\ current_position = None
    /\ sizing = None
    /\ usdt_balance = 0
    /\ exchFund = 0
    /\ exchAvail = 0
    /\ startLong = 0
    /\ startShort = 0
    /\ priceAtExec = 0
    /\ gate = ""
    /\ orders = <<>>
    /\ arrivals = <<>>
    /\ test_mode = FALSE
    /\ setupAttempt = 0

programVars == <<pc, cycle, exchangeVars, price_data, fetchCalls, oracleCalled,
                 oracleReply, signal_data, signal_history, position, tradeVars,
                 arrivals, test_mode, setupAttempt>>

CallPositionSize ==
    /\ call.fn = "calculate_position_size"
    /\ ~call.done
    /\ call' = [call EXCEPT
                  !.done = TRUE,
                  !.result = calculate_position_size(call.price, call.target_notional,
                                                     call.specOutcome)]
    /\ UNCHANGED programVars

CallWaitForNextPeriod ==
    /\ call.fn = "wait_for_next_period"
    /\ ~call.done
    /\ call' = [call EXCEPT
                  !.done = TRUE,
                  !.result = wait_for_next_period(call.minute, call.second)]
    /\ UNCHANGED programVars

CallGetCurrentPosition ==
    /\ call.fn = "get_current_position"
    /\ ~call.done
    /\ call' = [call EXCEPT
                  !.done = TRUE,
                  !.result = get_current_position(call.resp, call.specs)]
    /\ UNCHANGED programVars

NextCalls ==
    \/ CallPositionSize
    \/ CallWaitForNextPeriod
    \/ CallGetCurrentPosition

SpecCalls == InitCalls /\ [][NextCalls]_vars

(***************************************************************************)
(* SpecStartup: main from setup_exchange to the end of the first           *)
(* trading_bot (lines 864-871).  The account may hold positions of the     *)
(* instrument when the process starts, and test_mode may be set.           *)
(***************************************************************************)
StartupContracts == 2

\* setup_exchange's own max_retries
SetupMaxRetries == 3

\* What one position of close_all_positions meets: the outcome of its
\* privatePostTradeOrder and, should that answer another code than '0', of
\* the create_order that follows.
CloseOutcomes == [close : OrderCodes, ccxt : {"0", "raise"}]

\* Lines 286-355 for the entries from i on.  acc is the orders sent and the
\* exchange's sizes so far; an order acknowledged with '0' (or a create_order
\* that returns) closes the whole entry.
RECURSIVE CloseEach(_, _, _, _, _)
CloseEach(data, specs, outs, i, acc) ==
    IF i > Len(data) THEN acc
    ELSE LET contracts == data[i].pos
             min_size == get_contract_specs(specs[i]).min_size
         IN  IF \/ data[i].instId # Instrument
                \/ Abs(contracts) <= min_size
                \/ data[i].state \notin {"live", "normal"}
             THEN CloseEach(data, specs, outs, i + 1, acc)
             ELSE LET side == IF contracts > 0 THEN "long" ELSE "short"
                      close_params ==
                          [side       |-> IF side = "short" THEN "buy" ELSE "sell",
                           posSide    |-> side,
                           sz         |-> Abs(contracts),
                           reduceOnly |-> TRUE]
                      first == [params |-> close_params, code |-> outs[i].close]
                      again == outs[i].close \notin {"0", "raise"}
                      second == [params |-> [close_params EXCEPT !.posSide = ""],
                                 code |-> outs[i].ccxt]
                      closed == \/ outs[i].close = "0"
                                \/ again /\ outs[i].ccxt = "0"
                  IN  CloseEach(data, specs, outs, i + 1,
                          [orders |-> acc.orders \o
                                          (IF again THEN <<first, second>> ELSE <<first>>),
                           long   |-> IF closed /\ side = "long" THEN 0 ELSE acc.long,
                           short  |-> IF closed /\ side = "short" THEN 0 ELSE acc.short])

\* close_all_positions: nothing happens when the position query raises or
\* answers another code than '0'.
close_all_positions(resp, specs, outs, acc) ==
    IF resp.kind = "raise" \/ resp.code # "0" THEN acc
    ELSE CloseEach(resp.data, specs, outs, 1, acc)

InitStartup ==
    /\ pc = "cleanup"
    /\ cycle = 1
    /\ longSz \in {0, StartupContracts * SzScale}
    /\ shortSz \in {0, StartupContracts * SzScale}
    /\ instSpec \in InstSpecs
    /\ price_data = None
    /\ fetchCalls = 0
    /\ oracleCalled = FALSE
    /\ oracleReply = None
    /\ signal_data = None
    /\ signal_history = <<>>
    /\ position = None
    /\ current_position = None
    /\ sizing = None
    /\ usdt_balance = 0
    /\ exchFund = 0
    /\ exchAvail = 0
    /\ startLong = 0
    /\ startShort = 0
    /\ priceAtExec = 0
    /\ gate = ""
    /\ orders = <<>>
    /\ arrivals = <<>>
    /\ call = None
    /\ test_mode \in BOOLEAN
    /\ setupAttempt = 0

cycleVars == <<cycle, instSpec, price_data, fetchCalls, oracleCalled, oracleReply,
               signal_data, signal_history, position, current_position, sizing,
               usdt_balance, exchFund, exchAvail, startLong, startShort,
               priceAtExec, gate, arrivals, call>>

\* cleanup_before_setup, lines 363-388: cancel_all_open_orders sends no
\* order, close_all_positions sends the closes, and the position query that
\* follows is only printed.
CleanupBeforeSetup ==
    /\ pc = "cleanup"
    /\ \E resp \in PositionsResponses(longSz, shortSz) :
         \E specs \in [1..Len(resp.data) -> SpecOutcomes],
            outs \in [1..Len(resp.data) -> CloseOutcomes] :
            LET r == close_all_positions(resp, specs, outs,
                         [orders |-> orders, long |-> longSz, short |-> shortSz])
            IN  /\ orders' = r.orders
                /\ longSz' = r.long
                /\ shortSz' = r.short
    /\ pc' = "posmode"
    /\ UNCHANGED <<cycleVars, test_mode, setupAttempt>>

\* setup_exchange, lines 398-433, one setupAttempt of the position-mode loop:
\* code 59000 and a raise are tried again while attempts remain, 59000 after
\* another cleanup; everything else leaves the loop.  The leverage and the
\* balance query that follow change nothing, setup_exchange returns True and
\* main runs the first trading_bot (line 871).
SetPositionMode ==
    /\ pc = "posmode"
    /\ \E code \in {"0", "59000", "51000", "raise"} :
         IF code \in {"59000", "raise"} /\ setupAttempt < SetupMaxRetries - 1
         THEN /\ setupAttempt' = setupAttempt + 1
              /\ pc' = IF code = "59000" THEN "cleanup" ELSE "posmode"
              /\ UNCHANGED orders
         ELSE /\ setupAttempt' = setupAttempt
              /\ pc' = "start"
              /\ orders' = <<>>
    /\ UNCHANGED <<cycleVars, longSz, shortSz, test_mode>>

\* the startup and the first trading_bot
NextStartup ==
    \/ CleanupBeforeSetup
    \/ SetPositionMode
    \/ GetOhlcv
    \/ AnalyzeWithDeepseek
    \/ QueryPosition
    \/ CheckRisk
    \/ SubmitClose
    \/ SubmitOpen
    \/ RefreshPosition
    \/ CycleRaises

SpecStartup == InitStartup /\ [][NextStartup]_vars

(***************************************************************************)
(* Properties                                                              *)
(***************************************************************************)
IsOpen(o) == ~o.params.reduceOnly
IsClose(o) == o.params.reduceOnly
OpenOrders == {i \in DOMAIN orders : IsOpen(orders[i])}
CloseOrders == {i \in DOMAIN orders : IsClose(orders[i])}
HasSignal == signal_data # None
Submitting == pc \in {"close", "open"}

\* C1: when the reduce-only close of a flip is not acknowledged with code
\* '0' (an error code, or the call raises), execute_trade ends and the
\* cycle holds no opening order.
C1_FailedCloseNoOpen ==
    \A i \in CloseOrders :
        orders[i].code # "0" => (OpenOrders = {} /\ pc = "done")

C1_Witness ==
    /\ pc = "done"
    /\ HasSignal
    /\ signal_data.signal = "BUY"
    /\ current_position # None
    /\ current_position.side = "short"
    /\ Len(orders) = 1
    /\ IsClose(orders[1])
    /\ orders[1].code = "51000"

\* C2: a cycle whose signal has confidence LOW submits no order, whatever
\* the position, the signal action, the balance and the sizing.
C2_LowConfidenceNoOrder ==
    (HasSignal /\ signal_data.confidence = "LOW") => (orders = <<>> /\ ~Submitting)

C2_Witness ==
    /\ pc = "done"
    /\ gate = "low"
    /\ HasSignal
    /\ signal_data.signal = "BUY"
    /\ signal_data.confidence = "LOW"
    /\ ~("is_fallback" \in DOMAIN signal_data)
    /\ current_position # None
    /\ current_position.side = "short"
    /\ orders = <<>>

\* The balance a successful query of the account reports.
AccountBalance == IF exchFund > 0 THEN exchFund ELSE exchAvail

\* C3 as claimed: whenever an order is submitted, required_margin is at
\* most 60% of the balance the account holds on the exchange.
C3_MarginWithinAccountBalance ==
    orders # <<>> => sizing.margin * 10 <= AccountBalance * 6

\* C3 as amended: whenever an order is submitted, required_margin is at
\* most 60% of the value get_usdt_balance returned, which is a positive
\* balance the account holds or else the default of 10 USDT.
C3_MarginWithinReturnedBalance ==
    (orders # <<>> \/ Submitting) =>
        /\ sizing.margin * 10 <= usdt_balance * 6
        /\ usdt_balance \in ({exchFund, exchAvail} \ {0}) \cup {Usd(DefaultBalanceUsd)}

C3_Witness ==
    /\ orders # <<>>
    /\ sizing # None
    /\ exchFund = 0
    /\ exchAvail = 0
    /\ usdt_balance = Usd(DefaultBalanceUsd)
    /\ sizing.margin > 0

\* C4: whenever an order is submitted the sized notional lies between the
\* minimum trade value 3.0 and max_position_value, and a sizing outside
\* these bounds ends the cycle with no order.
C4_NotionalGates ==
    /\ (orders # <<>> \/ Submitting) =>
          /\ sizing # None
          /\ sizing.notional >= Usd(MinTradeValueUsd)
          /\ sizing.notional <= Usd(MaxPositionValueUsd)
    /\ (sizing # None /\ (\/ sizing.notional < Usd(MinTradeValueUsd)
                          \/ sizing.notional > Usd(MaxPositionValueUsd))) =>
          (orders = <<>> /\ pc = "done")

C4_Witness ==
    /\ pc = "done"
    /\ gate = "max"
    /\ HasSignal
    /\ signal_data.signal = "BUY"
    /\ sizing.notional > Usd(MaxPositionValueUsd)
    /\ sizing.margin * 10 <= usdt_balance * 6
    /\ orders = <<>>

\* The notional of the position the exchange held on a side when
\* execute_trade started, at the cycle's price.
ExistingNotional(posSide) ==
    Notional(IF posSide = "long" THEN startLong ELSE startShort,
             instSpec.contract_value, priceAtExec)

\* C5: whenever an opening order is submitted on a side on which the
\* exchange already holds a position, existing notional plus the new
\* notional is at most max_position_value.
C5_CombinedNotionalWithinMax ==
    \A i \in OpenOrders :
        ExistingNotional(orders[i].params.posSide) > 0 =>
            ExistingNotional(orders[i].params.posSide) + sizing.notional
                <= Usd(MaxPositionValueUsd)

SameDirection ==
    /\ HasSignal
    /\ current_position # None
    /\ \/ signal_data.signal = "BUY" /\ current_position.side = "long"
       \/ signal_data.signal = "SELL" /\ current_position.side = "short"

\* C6 as claimed: with the position Long and the signal BUY, or the
\* position Short and the signal SELL, no order is submitted.
C6_SameDirectionNoOrder == SameDirection => orders = <<>>

\* C6 as amended: with the position Long and the signal BUY, or Short and
\* SELL, no reduce-only close is submitted; at most one order is submitted,
\* an opening order on the position's own side, and only when the
\* confidence is not LOW and every risk gate passed.
C6_SameDirectionOnlyAdds ==
    SameDirection =>
        /\ pc # "close"
        /\ Len(orders) <= 1
        /\ \A i \in DOMAIN orders :
              /\ IsOpen(orders[i])
              /\ orders[i].params.posSide = current_position.side
              /\ orders[i].params.sz = sizing.contracts
        /\ (orders # <<>> \/ pc = "open") =>
              (gate = "pass" /\ signal_data.confidence # "LOW")

C6_Witness ==
    /\ SameDirection
    /\ pc = "done"
    /\ Len(orders) = 1
    /\ orders[1].code = "0"
    /\ signal_data.signal = "BUY"
    /\ longSz = startLong + sizing.contracts

\* C7: a cycle with signal HOLD submits no order and leaves the exchange's
\* positions as they were, in every position state and for every gate
\* outcome; so it does on each of two successive HOLD cycles.
C7_HoldNoOrder ==
    (HasSignal /\ signal_data.signal = "HOLD") =>
        /\ orders = <<>>
        /\ ~Submitting
        /\ pc # "refresh"
        /\ longSz = startLong
        /\ shortSz = startShort

C7_Witness ==
    /\ pc = "done"
    /\ cycle = 2
    /\ gate = "pass"
    /\ HasSignal
    /\ Len(signal_history) = 2
    /\ \A i \in 1..2 : /\ signal_history[i].signal = "HOLD"
                       /\ signal_history[i].confidence = "HIGH"
                       /\ signal_history[i].timestamp = i
    /\ signal_data.signal = "HOLD"
    /\ orders = <<>>

\* C8: with no current position and every risk gate passed, BUY submits
\* exactly one order, an open long of the sized quantity, and SELL exactly
\* one order, an open short; no reduce-only close is submitted.
C8_OpenFromFlat ==
    (HasSignal /\ current_position = None /\ gate = "pass"
       /\ signal_data.signal \in {"BUY", "SELL"}) =>
        /\ pc \in {"open", "refresh", "done"}
        /\ pc = "open" => orders = <<>>
        /\ pc # "open" =>
              /\ Len(orders) = 1
              /\ orders[1].params =
                    IF signal_data.signal = "BUY"
                    THEN [side |-> "buy", posSide |-> "long",
                          sz |-> sizing.contracts, reduceOnly |-> FALSE]
                    ELSE [side |-> "sell", posSide |-> "short",
                          sz |-> sizing.contracts, reduceOnly |-> FALSE]

C8_Witness ==
    /\ pc = "done"
    /\ HasSignal
    /\ sizing # None
    /\ current_position = None
    /\ startLong = 0
    /\ startShort = 0
    /\ signal_data.signal = "SELL"
    /\ signal_data.confidence = "HIGH"
    /\ Len(orders) = 1
    /\ orders[1].code = "0"
    /\ shortSz = sizing.contracts
    /\ longSz = 0

\* C9: the instrument never has an open long and an open short position
\* at the same time.
C9_SingleDirection == ~(longSz > 0 /\ shortSz > 0)

\* The reply holds a JSON object from position a to position b.
ObjectAt(text, a, b) == a < b /\ JsonValid(SubSeq(text, a, b))

\* The oracle cases of the claim: no client, a raising call, no content,
\* an empty reply, a reply holding no JSON object, a reply holding an
\* object that lacks a required field.
OracleFailed(reply) ==
    \/ reply.kind \in {"no_client", "raise", "none"}
    \/ reply.text = <<>>
    \/ ~\E a, b \in 1..Len(reply.text) : ObjectAt(reply.text, a, b)
    \/ \E a, b \in 1..Len(reply.text) :
          /\ ObjectAt(reply.text, a, b)
          /\ \E k \in required_fields :
                \A i \in (a + 1)..(b - 1) : TokKey(reply.text[i]) # k

\* C10: analyze_with_deepseek always returns a signal holding the required
\* fields, and in each of the oracle's failure cases it returns the
\* fallback: HOLD, LOW, stop_loss = price * 0.98, take_profit = price *
\* 1.02, is_fallback true.
C10_FallbackOnOracleFailure ==
    pc = "analyzed" =>
        /\ required_fields \subseteq DOMAIN signal_data
        /\ OracleFailed(oracleReply) =>
              /\ DOMAIN signal_data = required_fields \cup {"is_fallback"}
              /\ signal_data.signal = "HOLD"
              /\ signal_data.confidence = "LOW"
              /\ signal_data.stop_loss = price_data.price * 98
              /\ signal_data.take_profit = price_data.price * 102
              /\ signal_data.is_fallback = TRUE

C10_Witness ==
    /\ pc = "analyzed"
    /\ price_data.price = 60
    /\ oracleReply.kind = "text"
    /\ oracleReply.text = <<"txt", "{", "signal:BUY", "reason:up", "stop_loss:95",
                            "take_profit:105", "}">>
    /\ signal_data.is_fallback = TRUE
    /\ signal_data.stop_loss = 5880

Actions == {"BUY", "SELL", "HOLD"}

\* The reply encloses, between its first "{" and its last "}", an object
\* with the five required fields whose signal is none of BUY, SELL, HOLD.
InvalidAction(reply) ==
    /\ reply.kind = "text"
    /\ LET start_idx == Find(reply.text, "{")
           end_idx == RFind(reply.text, "}") + 1
           json_str == Slice(reply.text, start_idx, end_idx)
       IN  /\ start_idx # -1
           /\ end_idx # 0
           /\ JsonValid(json_str)
           /\ required_fields \subseteq DOMAIN JsonLoads(json_str)
           /\ JsonLoads(json_str).signal \notin Actions

\* C11: a reply whose object holds all five required fields but a signal
\* other than BUY, SELL, HOLD yields the fallback signal, and no such
\* object is ever appended to the signal history.
C11_InvalidActionRejected ==
    /\ (pc = "analyzed" /\ InvalidAction(oracleReply)) =>
          /\ "is_fallback" \in DOMAIN signal_data
          /\ signal_data.is_fallback = TRUE
    /\ \A i \in DOMAIN signal_history : signal_history[i].signal \in Actions

\* the last n elements of s
LastN(s, n) == SubSeq(s, Len(s) - n + 1, Len(s))

\* C12: the signal history never holds more than 30 entries, and it is
\* the most recent min(n, 30) of the n signals parsed so far, in the
\* order in which they arrived.
C12_HistoryBound ==
    /\ Len(signal_history) <= HistoryCap
    /\ signal_history = LastN(arrivals, Min(Len(arrivals), HistoryCap))

C12_Witness ==
    /\ Len(arrivals) = HistoryCap + 2
    /\ Rejected = 1
    /\ Len(signal_history) = HistoryCap
    /\ signal_history[1] = arrivals[3]
    /\ signal_history[HistoryCap].timestamp = HistoryCap + 3

Called(fn) == call # None /\ call.fn = fn /\ call.done

\* C13: for a positive price, a positive target and a spec of positive
\* min_size, size_increment and contract_value, the contracts returned by
\* calculate_position_size are a multiple of size_increment and at least
\* min_size.
C13_QuantizedAtLeastMin ==
    Called("calculate_position_size") =>
        LET contract_spec == get_contract_specs(call.specOutcome)
        IN  (/\ call.price > 0
             /\ call.target_notional > 0
             /\ contract_spec.min_size > 0
             /\ contract_spec.size_increment > 0
             /\ contract_spec.contract_value > 0) =>
                /\ call.result.contracts % contract_spec.size_increment = 0
                /\ call.result.contracts >= contract_spec.min_size

\* C14: on the normal path the returned notional is contracts *
\* contract_value * price for the quantized contracts and the margin is
\* that notional / leverage; scenario A (price 100, target 5, the default
\* spec) returns 0.5 contracts, notional 5 and margin 0.5.
C14_NotionalFromQuantized ==
    Called("calculate_position_size") =>
        LET contract_spec == get_contract_specs(call.specOutcome)
            r == call.result
        IN  /\ ~r.failed =>
                  /\ r.notional = Notional(r.contracts, contract_spec.contract_value,
                                            call.price)
                  /\ r.margin * Leverage = r.notional
            /\ (call.price = 100 /\ call.target_notional = 5
                   /\ contract_spec = DefaultSpec) =>
                  /\ ~r.failed
                  /\ r.contracts * 2 = SzScale
                  /\ r.notional = Usd(5)
                  /\ r.margin * 2 = Usd(1)

C14_Witness ==
    /\ Called("calculate_position_size")
    /\ call.price = 60
    /\ call.target_notional = 5
    /\ call.specOutcome = "ok"
    /\ instSpec = [min_size |-> 10000, size_increment |-> 10000, contract_value |-> 10]
    /\ call.result.contracts = SzScale
    /\ call.result.notional = Usd(60)
    /\ call.result.margin = Usd(6)

\* C17: for every minute and second of the clock, wait_for_next_period
\* returns w with 1 <= w <= 300 and 60 * minute + second + w a multiple
\* of 300.
C17_BoundaryAlignment ==
    Called("wait_for_next_period") =>
        /\ call.result >= 1
        /\ call.result <= 300
        /\ (60 * call.minute + call.second + call.result) % 300 = 0

C17_Witness ==
    /\ Called("wait_for_next_period")
    /\ call.minute = 57
    /\ call.second = 30
    /\ call.result = 150

\* C18: get_current_position returns a record only for an entry of the
\* instrument whose absolute size is above min_size and whose state is
\* live or normal, the first entry of the instrument above min_size; the
\* record carries that entry's absolute size, which is positive, and the
\* side long or short.
C18_PositionRecord ==
    Called("get_current_position") =>
        LET data == call.resp.data
            r == call.result
            Large(i) == /\ data[i].instId = Instrument
                        /\ Abs(data[i].pos) > get_contract_specs(call.specs[i]).min_size
        IN  r # None =>
              /\ call.resp.kind = "resp"
              /\ call.resp.code = "0"
              /\ \E i \in DOMAIN data :
                    /\ Large(i)
                    /\ \A j \in 1..(i - 1) : ~Large(j)
                    /\ data[i].state \in {"live", "normal"}
                    /\ r.size = Abs(data[i].pos)
                    /\ r.state = data[i].state
                    /\ r.side = IF data[i].pos > 0 THEN "long" ELSE "short"
              /\ r.size > 0
              /\ r.side \in {"long", "short"}

C18_Witness ==
    /\ Called("get_current_position")
    /\ Len(call.resp.data) = 2
    /\ call.resp.data[1] = [instId |-> Instrument, pos |-> 100, state |-> "live"]
    /\ call.specs[1] = "fail"
    /\ call.resp.data[2] = [instId |-> Instrument, pos |-> -150, state |-> "normal"]
    /\ call.specs[2] = "fail"
    /\ call.result = [side |-> "short", size |-> 150, state |-> "normal"]

\* C15: one get_OKB_ohlcv_enhanced makes at most 3 fetch attempts; when
\* every setupAttempt raises or answers no candles it returns None after the
\* third (for every sequence of outcomes the fetch about to start may
\* meet), and the cycle then ends with the oracle not called, the signal
\* history untouched, no order submitted and the positions unchanged.
C15_FetchExhaustedSkipsCycle ==
    /\ fetchCalls <= MaxRetries
    /\ pc = "start" =>
          \A outs \in [1..MaxRetries -> FetchOutcomes], price \in Prices :
             LET r == get_OKB_ohlcv_enhanced(outs, price)
             IN  /\ r.calls <= MaxRetries
                 /\ (\A i \in 1..MaxRetries : outs[i] # "ok") =>
                       (r.data = None /\ r.calls = MaxRetries)
    /\ (pc = "done" /\ price_data = None) =>
          /\ fetchCalls = MaxRetries
          /\ ~oracleCalled
          /\ signal_data = None
          /\ \A i \in DOMAIN signal_history : signal_history[i].timestamp < cycle
          /\ orders = <<>>
          /\ longSz = startLong
          /\ shortSz = startShort

C15_Witness ==
    /\ pc = "done"
    /\ cycle = 2
    /\ price_data = None
    /\ fetchCalls = MaxRetries
    /\ Len(signal_history) = 1
    /\ longSz > 0
    /\ orders = <<>>

\* C16: the process never terminates because a cycle raised, be it the
\* first immediate run or a scheduled run.
C16_CycleFailureNotFatal == pc # "crashed"

\* C19: a cycle starts only when the previous one has returned (or its
\* exception was caught), and an order is only ever submitted by the one
\* cycle in progress, so that the orders of two cycles never interleave.
C19_NoOverlappingCycles ==
    [][/\ cycle' # cycle =>
            (pc \in {"done", "cooldown"} /\ pc' = "start" /\ cycle' = cycle + 1
               /\ orders' = <<>>)
       /\ (orders' # orders /\ orders' # <<>>) =>
            (cycle' = cycle /\ pc \in {"close", "open"}
               /\ Len(orders') = Len(orders) + 1
               /\ SubSeq(orders', 1, Len(orders)) = orders)]_vars

C19_Witness ==
    /\ cycle = 2
    /\ pc = "done"
    /\ startLong > 0
    /\ Len(orders) = 2
    /\ orders[1].code = "0"
    /\ orders[2].code = "0"
    /\ shortSz > 0

Opposite ==
    /\ HasSignal
    /\ current_position # None
    /\ \/ signal_data.signal = "BUY" /\ current_position.side = "short"
       \/ signal_data.signal = "SELL" /\ current_position.side = "long"

\* C20: with the position Long and the signal SELL, or Short and BUY, the
\* confidence not LOW and the margin, maximum and minimum gates passed
\* for the new order, the reduce-only close is submitted whatever the
\* notional of the existing position, and the open follows a close
\* acknowledged with code '0'.
C20_FlipGatedByOwnBounds ==
    (/\ Opposite
     /\ gate # ""
     /\ signal_data.confidence # "LOW"
     /\ sizing.margin * 10 <= usdt_balance * 6
     /\ sizing.notional <= Usd(MaxPositionValueUsd)
     /\ sizing.notional >= Usd(MinTradeValueUsd)) =>
        /\ pc = "close" \/ (orders # <<>> /\ IsClose(orders[1]))
        /\ (orders # <<>> /\ orders[1].code = "0") =>
              (pc = "open" \/ (Len(orders) = 2 /\ IsOpen(orders[2])))

\* C21: when the sizing computation fails (price 0, or a contract_value
\* of 0), calculate_position_size returns min_size contracts of the spec
\* get_contract_specs gave, with notional = contracts * contract_value *
\* price and margin = notional / leverage.
C21_FailureReturnsMinSize ==
    Called("calculate_position_size") =>
        LET contract_spec == get_contract_specs(call.specOutcome)
            r == call.result
        IN  (call.price = 0 \/ contract_spec.contract_value = 0) =>
                /\ r.contracts = contract_spec.min_size
                /\ r.notional = Notional(r.contracts, contract_spec.contract_value,
                                          call.price)
                /\ r.margin * Leverage = r.notional

\* C22: a cycle whose oracle is unavailable, raises, or answers a reply
\* that fails parsing or the required-field check continues with the
\* fallback signal, and a cycle that runs on the fallback signal submits no
\* order and leaves the exchange's positions as they were, for every
\* position and balance.
C22_OracleFailureNoOrder ==
    /\ (pc = "analyzed" /\ OracleFailed(oracleReply)) =>
          "is_fallback" \in DOMAIN signal_data
    /\ (HasSignal /\ "is_fallback" \in DOMAIN signal_data) =>
          /\ orders = <<>>
          /\ pc \in {"analyzed", "risk", "done"}
          /\ gate \in {"", "low"}
          /\ longSz = startLong
          /\ shortSz = startShort

C22_Witness ==
    /\ pc = "done"
    /\ cycle = 2
    /\ HasSignal
    /\ "is_fallback" \in DOMAIN signal_data
    /\ gate = "low"
    /\ current_position # None
    /\ current_position.side = "long"
    /\ longSz = startLong
    /\ longSz > 0
    /\ orders = <<>>

\* In the long/short position mode a buy on the short side or a sell on the
\* long side reduces a position; a buy on the long side or a sell on the
\* short side opens or adds to one.
Reduces(params) ==
    \/ params.side = "buy" /\ params.posSide = "short"
    \/ params.side = "sell" /\ params.posSide = "long"

\* C23: every close order submitted by execute_trade carries reduceOnly,
\* has the posSide and the size of the position the cycle's position query
\* returned, and is submitted only when that side is opposite to the
\* signal; no opening order carries reduceOnly.
C23_CloseOrderShape ==
    /\ pc = "close" => Opposite
    /\ \A i \in DOMAIN orders :
          LET params == orders[i].params
          IN  /\ Reduces(params) =>
                    /\ params.reduceOnly
                    /\ Opposite
                    /\ params.posSide = current_position.side
                    /\ params.sz = current_position.size
              /\ ~Reduces(params) => ~params.reduceOnly

C23_Witness ==
    /\ pc = "done"
    /\ HasSignal
    /\ signal_data.signal = "BUY"
    /\ current_position = [side |-> "short", size |-> startShort, state |-> "live"]
    /\ Len(orders) = 2
    /\ orders[1] = [params |-> [side |-> "buy", posSide |-> "short",
                                sz |-> startShort, reduceOnly |-> TRUE],
                    code |-> "0"]
    /\ orders[2].params = [side |-> "buy", posSide |-> "long",
                           sz |-> sizing.contracts, reduceOnly |-> FALSE]
    /\ shortSz = 0

\* C24: a cycle submits at most two orders, at most one that reduces a
\* position and at most one that opens; when it submits both, the close
\* comes first and was acknowledged with code '0' before the open was
\* submitted, and no close is submitted once an order exists.
C24_OrderBudget ==
    /\ Len(orders) <= 2
    /\ Cardinality({i \in DOMAIN orders : Reduces(orders[i].params)}) <= 1
    /\ Cardinality({i \in DOMAIN orders : ~Reduces(orders[i].params)}) <= 1
    /\ Len(orders) = 2 =>
          /\ Reduces(orders[1].params)
          /\ orders[1].code = "0"
          /\ ~Reduces(orders[2].params)
    /\ pc = "close" => orders = <<>>
    /\ pc = "open" =>
          \/ orders = <<>>
          \/ Len(orders) = 1 /\ Reduces(orders[1].params) /\ orders[1].code = "0"

C24_Witness ==
    /\ pc = "refresh"
    /\ HasSignal
    /\ signal_data.signal = "SELL"
    /\ Len(orders) = 2
    /\ Reduces(orders[1].params)
    /\ orders[1].code = "0"
    /\ ~Reduces(orders[2].params)
    /\ orders[2].code = "51000"
    /\ longSz = 0
    /\ shortSz = 0

\* C25: with test_mode set the process submits no order at any point of its
\* run, neither during the startup (setup_exchange and its cleanup) nor in
\* a cycle, whatever the signal and the position.
C25_TestModeNoOrder ==
    test_mode => (orders = <<>> /\ ~Submitting)

====
